---- MODULE Spec2Model ----
(***************************************************************************)
(* AdvancedWildfireAdaptationStrategy (UPISAS/adaptation.py): the          *)
(* Monitor -> Analyze -> Plan -> Execute adaptation cycle of a UAV fleet   *)
(* tracking a wildfire, and the decision functions it is built from.       *)
(*                                                                         *)
(* Numbers.  Positions, intensities and thresholds are integers.  A        *)
(* Euclidean distance np.linalg.norm(a - b) / np.sqrt(dx^2 + dy^2) is kept *)
(* as its square (an integer); comparisons of distances and of priority    *)
(* scores are decided exactly on the squares.  A priority score            *)
(* intensity / (distance + 1) is kept as the pair [num, d2] it is computed *)
(* from.  A speed is kept as a fraction <<numerator, denominator>>.        *)
(***************************************************************************)
EXTENDS Integers, Sequences, FiniteSets, TLC

VARIABLES
    observation_radius,  \* self.observation_radius
    max_uav_speed,       \* self.max_uav_speed
    collision_distance,  \* self.collision_distance
    pc,                  \* position of the caller in the adaptation cycle
    data,                \* what monitor() returned
    analysis,            \* what analyze() returned
    adjustments,         \* what plan() returned
    sent,                \* adjustments execute() has PUT so far, in order
    error,               \* the exception that ended the cycle, or "none"
    fast_cycles,         \* history: completed analyze() calls, while all were fast-fire
    args,                \* arguments of a direct call of one decision function
    ret                  \* its outcome [err, val]

vars == <<observation_radius, max_uav_speed, collision_distance, pc, data,
          analysis, adjustments, sent, error, fast_cycles, args, ret>>

cycleVars == <<pc, data, analysis, adjustments, sent, error, fast_cycles>>
selfVars == <<observation_radius, max_uav_speed, collision_distance>>

----------------------------------------------------------------------------
(* Bounds of the explored inputs *)

MaxCoord == 1
MaxIntensity == 2
MaxZones == 3
MaxUavs == 3
SnapshotMaxZones == 1
SnapshotMaxUavs == 2
MaxSecurityDistance == 2
MaxUavSpeed == 2
MaxFireSpreadSpeed == 5
MaxFastCycles == 4
MaxPlan == 3

(* Program constants *)

InitialRadius == 8
DefaultMaxUavSpeed == 2
DefaultCollisionDistance == 10
SpeedThreshold == 3
MinRadius == 5
MaxRadius == 15
HttpOk == 200

----------------------------------------------------------------------------
(* Input domains *)

Coords == 0..MaxCoord
Intensities == 0..MaxIntensity
Directions == {"north", "south", "east", "west", "none"}
Winds == [active : BOOLEAN, direction : Directions]
FireSpreadSpeeds == 2..MaxFireSpreadSpeed
StatusCodes == {HttpOk, 500}
Steps == {-1, 1}

FireZone == [x : Coords, y : Coords, intensity : Intensities]

SeqsUpTo(S, n) == UNION {[1..k -> S] : k \in 0..n}

ZoneLists(n) == SeqsUpTo(FireZone, n)

\* UAV ids are unique within a list
UavLists(n) ==
    UNION {{[i \in 1..k |-> [id |-> 100 + i, x |-> p[i][1], y |-> p[i][2]]] :
              p \in [1..k -> Coords \X Coords]} : k \in 0..n}

----------------------------------------------------------------------------
(* Outcomes of a call: a returned value or a raised exception *)

Return(v) == [err |-> "none", val |-> v]
Raise(e) == [err |-> e, val |-> <<>>]

\* dict.get(key): the value, or None when the key is missing
None == [some |-> FALSE, val |-> <<>>]
Some(v) == [some |-> TRUE, val |-> v]
dict_get(d, k) == IF k \in DOMAIN d THEN Some(d[k]) ELSE None

----------------------------------------------------------------------------
(* Distances and priority scores *)

\* np.linalg.norm(a - b) and np.sqrt(dx ** 2 + dy ** 2), squared
norm2(a, b) == (a.x - b.x) * (a.x - b.x) + (a.y - b.y) * (a.y - b.y)

\* p.num / (sqrt(p.d2) + 1) < q.num / (sqrt(q.d2) + 1), decided exactly:
\* with a = p.num, b = q.num it is a*sqrt(q.d2) - b*sqrt(p.d2) < b - a
ScoreLess(p, q) ==
    LET a == p.num
        b == q.num
        D == a * a * q.d2 - b * b * p.d2      \* sign of the left side
        C == b - a
        M == a * a * q.d2 + b * b * p.d2 - C * C
        R == 4 * a * a * b * b * p.d2 * q.d2  \* (2ab sqrt(p.d2 q.d2))^2
    IN  IF D < 0 /\ C >= 0 THEN TRUE
        ELSE IF D >= 0 /\ C <= 0 THEN FALSE
        ELSE IF D >= 0 THEN M < 0 \/ M * M < R
        ELSE M > 0 /\ M * M > R

----------------------------------------------------------------------------
(* prioritize_fire_zones *)

\* min(... for uav in uav_positions): the smallest value, scanning left to right
RECURSIVE min_from(_, _, _)
min_from(best, f, i) ==
    IF i > Len(f) THEN best
    ELSE min_from(IF f[i] < best THEN f[i] ELSE best, f, i + 1)

distance_to_nearest_uav(zone, uav_positions) ==
    LET f == [j \in 1..Len(uav_positions) |-> norm2(zone, uav_positions[j])]
    IN  min_from(f[1], f, 2)

priority_score(zone, uav_positions) ==
    [num |-> zone.intensity, d2 |-> distance_to_nearest_uav(zone, uav_positions)]

\* sorted(..., reverse=True) places an entry after every entry that does not
\* compare lower than it: entries with equal keys keep their order
RECURSIVE insert_unstable(_, _)
insert_unstable(s, e) ==
    IF Len(s) = 0 THEN <<e>>
    ELSE IF ~ScoreLess(e.priority, Head(s).priority) THEN <<e>> \o s
    ELSE <<Head(s)>> \o insert_unstable(Tail(s), e)

RECURSIVE insert_sorted(_, _)
insert_sorted(s, e) ==
    IF Len(s) = 0 THEN <<e>>
    ELSE IF ScoreLess(Head(s).priority, e.priority) THEN <<e>> \o s
    ELSE <<Head(s)>> \o insert_sorted(Tail(s), e)

RECURSIVE sorted_reverse(_)
sorted_reverse(s) ==
    IF Len(s) = 0 THEN <<>>
    ELSE insert_sorted(sorted_reverse(SubSeq(s, 1, Len(s) - 1)), s[Len(s)])

prioritize_or_nothing(fire_zones, uav_positions) ==
    IF Len(uav_positions) = 0
    THEN Return(<<>>)
    ELSE Return(sorted_reverse(
            [i \in 1..Len(fire_zones) |->
                [zone |-> fire_zones[i],
                 priority |-> priority_score(fire_zones[i], uav_positions)]]))

prioritize_fire_zones(fire_zones, uav_positions) ==
    IF Len(fire_zones) > 0 /\ Len(uav_positions) = 0
    THEN Raise("ValueError")                  \* min() of an empty sequence
    ELSE Return(sorted_reverse(
            [i \in 1..Len(fire_zones) |->
                [zone |-> fire_zones[i],
                 priority |-> priority_score(fire_zones[i], uav_positions)]]))

----------------------------------------------------------------------------
(* predict_fire_spread: wind["active"] is not read *)

shift(direction, zone) ==
    IF direction = "north" THEN [x |-> zone.x, y |-> zone.y - 1]
    ELSE IF direction = "south" THEN [x |-> zone.x, y |-> zone.y + 1]
    ELSE IF direction = "east" THEN [x |-> zone.x + 1, y |-> zone.y]
    ELSE [x |-> zone.x - 1, y |-> zone.y]

predict_fire_spread(wind, fire_zones) ==
    IF wind.direction \in {"north", "south", "east", "west"}
    THEN [i \in 1..Len(fire_zones) |-> shift(wind.direction, fire_zones[i])]
    ELSE <<>>

----------------------------------------------------------------------------
(* adjust_observation_radius *)

Max(a, b) == IF a >= b THEN a ELSE b
Min(a, b) == IF a <= b THEN a ELSE b

adjust_inclusive(radius, fire_spread_speed) ==
    IF fire_spread_speed >= SpeedThreshold
    THEN Max(radius - 1, MinRadius)
    ELSE Min(radius + 1, MaxRadius)

adjust_unclamped(radius, fire_spread_speed) ==
    IF fire_spread_speed > SpeedThreshold
    THEN radius - 1
    ELSE radius + 1

adjust_observation_radius(radius, fire_spread_speed) ==
    IF fire_spread_speed > SpeedThreshold
    THEN Max(radius - 1, MinRadius)
    ELSE Min(radius + 1, MaxRadius)

----------------------------------------------------------------------------
(* allocate_uavs *)

\* min(uav_positions, key=...): the first UAV whose distance is the smallest
RECURSIVE nearest_last(_, _, _, _)
nearest_last(best, zone, uav_positions, i) ==
    IF i > Len(uav_positions) THEN best
    ELSE nearest_last(
            IF norm2(zone, uav_positions[i]) <= norm2(zone, best)
            THEN uav_positions[i] ELSE best,
            zone, uav_positions, i + 1)

RECURSIVE nearest_from(_, _, _, _)
nearest_from(best, zone, uav_positions, i) ==
    IF i > Len(uav_positions) THEN best
    ELSE nearest_from(
            IF norm2(zone, uav_positions[i]) < norm2(zone, best)
            THEN uav_positions[i] ELSE best,
            zone, uav_positions, i + 1)

nearest_uav(zone, uav_positions) ==
    nearest_from(uav_positions[1], zone, uav_positions, 2)

\* uav_positions is an optional list: plan() passes what dict.get returned
allocate_uavs(prioritized_zones, uav_positions, speed) ==
    IF Len(prioritized_zones) = 0 THEN Return(<<>>)
    ELSE IF ~uav_positions.some
    THEN Raise("TypeError")                   \* min() of None
    ELSE IF Len(uav_positions.val) = 0
    THEN Raise("ValueError")                  \* min() of an empty sequence
    ELSE Return(
            [i \in 1..Len(prioritized_zones) |->
                [id |-> nearest_uav(prioritized_zones[i].zone, uav_positions.val).id,
                 action |-> "move",
                 target |-> <<prioritized_zones[i].zone.x, prioritized_zones[i].zone.y>>,
                 speed |-> <<speed, 1>>]])

----------------------------------------------------------------------------
(* detect_collisions *)

\* np.sqrt(d2) < security_distance
closer_or_equal(d2, security_distance) ==
    security_distance >= 0 /\ d2 <= security_distance * security_distance

closer_than(d2, security_distance) ==
    security_distance > 0 /\ d2 < security_distance * security_distance

\* the inner loop: uav1 against uav_details[j..]
RECURSIVE collisions_of(_, _, _, _)
collisions_of(uav1, uav_details, j, security_distance) ==
    IF j > Len(uav_details) THEN <<>>
    ELSE (IF closer_than(norm2(uav1, uav_details[j]), security_distance)
          THEN <<<<uav1, uav_details[j]>>>> ELSE <<>>)
         \o collisions_of(uav1, uav_details, j + 1, security_distance)

\* the outer loop, from index i
RECURSIVE collisions_from(_, _, _)
collisions_from(uav_details, i, security_distance) ==
    IF i > Len(uav_details) THEN <<>>
    ELSE collisions_of(uav_details[i], uav_details, i + 1, security_distance)
         \o collisions_from(uav_details, i + 1, security_distance)

detect_collisions(uav_details, security_distance) ==
    collisions_from(uav_details, 1, security_distance)

----------------------------------------------------------------------------
(* resolve_collision: c holds the four outcomes of np.random.choice([-1, 1]) *)

evade_full_speed(uav, dx, dy, speed) ==
    [id |-> uav.id, action |-> "move",
     target |-> <<uav.x + dx, uav.y + dy>>,
     speed |-> <<speed, 1>>]

evade(uav, dx, dy, speed) ==
    [id |-> uav.id, action |-> "move",
     target |-> <<uav.x + dx, uav.y + dy>>,
     speed |-> <<speed, 2>>]

resolve_collision(uav1, uav2, c, speed) ==
    <<evade(uav1, c[1], c[2], speed), evade(uav2, c[3], c[4], speed)>>

Choices == Steps \X Steps \X Steps \X Steps

----------------------------------------------------------------------------
(* State after construction, and before a cycle's first step *)

NoData ==
    [uav_details |-> <<>>, fire_zones |-> <<>>,
     wind |-> [active |-> FALSE, direction |-> "none"],
     fire_spread_speed |-> 2]

NoAnalysis ==
    [prioritized_zones |-> <<>>, predicted_zones |-> <<>>,
     collision_warnings |-> <<>>]

NoArgs == [op |-> "none"]

Construct(speed, distance) ==
    /\ observation_radius = InitialRadius
    /\ max_uav_speed = speed
    /\ collision_distance = distance

NoCycle(at) ==
    /\ pc = at
    /\ data = NoData
    /\ analysis = NoAnalysis
    /\ adjustments = <<>>
    /\ sent = <<>>
    /\ error = "none"
    /\ fast_cycles = 0

Init ==
    /\ \E distance \in 1..MaxSecurityDistance : Construct(DefaultMaxUavSpeed, distance)
    /\ NoCycle("monitor")
    /\ args = NoArgs
    /\ ret = Return(<<>>)

----------------------------------------------------------------------------
(* The adaptation cycle *)

Snapshots ==
    [uav_details : UavLists(SnapshotMaxUavs),
     fire_zones : ZoneLists(SnapshotMaxZones),
     wind : Winds,
     fire_spread_speed : FireSpreadSpeeds]

\* monitor(): GET, then the snapshot the decision functions read
Monitor ==
    /\ pc = "monitor"
    /\ \E status \in StatusCodes :
        IF status # HttpOk
        THEN /\ error' = "MonitorApiError"
             /\ pc' = "failed"
             /\ data' = data
        ELSE /\ \E snapshot \in Snapshots : data' = snapshot
             /\ pc' = "analyze"
             /\ error' = error
    /\ UNCHANGED <<selfVars, analysis, adjustments, sent, fast_cycles, args, ret>>

\* the history of the radius controller: k completed fast-fire analyses in a
\* row since construction (counted up to MaxFastCycles), or -1 after a slow one
count_fast(n, fire_spread_speed) ==
    IF n < 0 \/ fire_spread_speed <= SpeedThreshold THEN -1
    ELSE Min(n + 1, MaxFastCycles)

\* analyze(data): the four steps in order; an exception of a step ends it
Analyze ==
    /\ pc = "analyze"
    /\ LET prioritized == prioritize_fire_zones(data.fire_zones, data.uav_details)
       IN  IF prioritized.err # "none"
           THEN /\ error' = prioritized.err
                /\ pc' = "failed"
                /\ UNCHANGED <<observation_radius, analysis, fast_cycles>>
           ELSE /\ analysis' =
                     [prioritized_zones |-> prioritized.val,
                      predicted_zones |-> predict_fire_spread(data.wind, data.fire_zones),
                      collision_warnings |->
                          detect_collisions(data.uav_details, collision_distance)]
                /\ observation_radius' =
                     adjust_observation_radius(observation_radius, data.fire_spread_speed)
                /\ fast_cycles' = count_fast(fast_cycles, data.fire_spread_speed)
                /\ pc' = "plan"
                /\ error' = error
    /\ UNCHANGED <<max_uav_speed, collision_distance, data, adjustments, sent, args, ret>>

\* the loop of plan() over the collision warnings; c[i] are the random draws
RECURSIVE collision_resolutions(_, _, _, _)
collision_resolutions(collision_warnings, c, i, speed) ==
    IF i > Len(collision_warnings) THEN <<>>
    ELSE resolve_collision(collision_warnings[i][1], collision_warnings[i][2], c[i], speed)
         \o collision_resolutions(collision_warnings, c, i + 1, speed)

\* plan(analysis_results)
Plan ==
    /\ pc = "plan"
    /\ LET uav_details == dict_get(analysis, "uav_details")
           prioritized_zones == dict_get(analysis, "prioritized_zones").val
           collision_warnings == dict_get(analysis, "collision_warnings").val
           assignments == allocate_uavs(prioritized_zones, uav_details, max_uav_speed)
       IN  IF assignments.err # "none"
           THEN /\ error' = assignments.err
                /\ pc' = "failed"
                /\ adjustments' = adjustments
           ELSE /\ \E c \in [1..Len(collision_warnings) -> Choices] :
                     adjustments' = assignments.val
                         \o collision_resolutions(collision_warnings, c, 1, max_uav_speed)
                /\ pc' = "execute"
                /\ error' = error
    /\ UNCHANGED <<selfVars, data, analysis, sent, fast_cycles, args, ret>>

ExecuteDispatchUnchecked ==
    /\ pc = "execute"
    /\ Len(sent) < Len(adjustments)
    /\ \E status \in StatusCodes :
        sent' = Append(sent, [adj |-> adjustments[Len(sent) + 1], status |-> status])
    /\ UNCHANGED <<selfVars, pc, error, data, analysis, adjustments, fast_cycles, args, ret>>

\* execute(adjustments), one iteration of its loop: PUT, then the status check
ExecuteDispatch ==
    /\ pc = "execute"
    /\ Len(sent) < Len(adjustments)
    /\ \E status \in StatusCodes :
        /\ sent' = Append(sent, [adj |-> adjustments[Len(sent) + 1], status |-> status])
        /\ IF status # HttpOk
           THEN error' = "ExecutionApiError" /\ pc' = "failed"
           ELSE error' = error /\ pc' = pc
    /\ UNCHANGED <<selfVars, data, analysis, adjustments, fast_cycles, args, ret>>

\* execute(adjustments): the loop is exhausted
ExecuteReturn ==
    /\ pc = "execute"
    /\ Len(sent) = Len(adjustments)
    /\ pc' = "done"
    /\ UNCHANGED <<selfVars, data, analysis, adjustments, sent, error, fast_cycles,
                   args, ret>>

\* the caller starts the next cycle; the locals of the last one are gone
NextCycle ==
    /\ pc \in {"done", "failed"}
    /\ pc' = "monitor"
    /\ data' = NoData
    /\ analysis' = NoAnalysis
    /\ adjustments' = <<>>
    /\ sent' = <<>>
    /\ error' = "none"
    /\ UNCHANGED <<selfVars, fast_cycles, args, ret>>

Next ==
    \/ Monitor
    \/ Analyze
    \/ Plan
    \/ ExecuteDispatch
    \/ ExecuteReturn
    \/ NextCycle

Spec == Init /\ [][Next]_vars

----------------------------------------------------------------------------
(* Direct calls of the decision functions on drawn arguments *)

NoCall(speed) ==
    /\ Construct(speed, DefaultCollisionDistance)
    /\ NoCycle("call")
    /\ ret = Return(<<>>)

Returned(r) ==
    /\ pc' = "returned"
    /\ ret' = r
    /\ UNCHANGED <<selfVars, data, analysis, adjustments, sent, error, fast_cycles, args>>

Called(op) == pc = "returned" /\ args.op = op

\* prioritize_fire_zones(fire_zones, uav_positions)
InitPrioritize ==
    /\ NoCall(DefaultMaxUavSpeed)
    /\ \E fire_zones \in ZoneLists(MaxZones), uav_positions \in UavLists(MaxUavs) :
        args = [op |-> "prioritize_fire_zones",
                fire_zones |-> fire_zones, uav_positions |-> uav_positions]

CallPrioritize ==
    /\ pc = "call"
    /\ args.op = "prioritize_fire_zones"
    /\ Returned(prioritize_fire_zones(args.fire_zones, args.uav_positions))

\* allocate_uavs(prioritized_zones, uav_positions), on a sequence that
\* prioritize_fire_zones returned for a fleet of one UAV at the origin
Origin == <<[id |-> 100, x |-> 0, y |-> 0]>>

InitAllocate ==
    /\ \E speed \in 1..MaxUavSpeed : NoCall(speed)
    /\ \E fire_zones \in ZoneLists(MaxZones), uav_positions \in UavLists(MaxUavs) :
        args = [op |-> "allocate_uavs",
                prioritized_zones |-> prioritize_fire_zones(fire_zones, Origin).val,
                uav_positions |-> uav_positions]

CallAllocate ==
    /\ pc = "call"
    /\ args.op = "allocate_uavs"
    /\ Returned(allocate_uavs(args.prioritized_zones, Some(args.uav_positions),
                              max_uav_speed))

InitAssign == InitPrioritize \/ InitAllocate

NextAssign ==
    \/ CallPrioritize
    \/ CallAllocate

SpecAssign == InitAssign /\ [][NextAssign]_vars

\* predict_fire_spread(wind, fire_zones)
InitPredict ==
    /\ NoCall(DefaultMaxUavSpeed)
    /\ \E wind \in Winds, fire_zones \in ZoneLists(MaxZones) :
        args = [op |-> "predict_fire_spread", wind |-> wind, fire_zones |-> fire_zones]

CallPredict ==
    /\ pc = "call"
    /\ args.op = "predict_fire_spread"
    /\ Returned(Return(predict_fire_spread(args.wind, args.fire_zones)))

SpecPredict == InitPredict /\ [][CallPredict]_vars

\* detect_collisions(uav_details, security_distance)
InitDetect ==
    /\ NoCall(DefaultMaxUavSpeed)
    /\ \E uav_details \in UavLists(MaxUavs), security_distance \in 0..MaxSecurityDistance :
        args = [op |-> "detect_collisions", uav_details |-> uav_details,
                security_distance |-> security_distance]

CallDetect ==
    /\ pc = "call"
    /\ args.op = "detect_collisions"
    /\ Returned(Return(detect_collisions(args.uav_details, args.security_distance)))

SpecDetect == InitDetect /\ [][CallDetect]_vars

\* resolve_collision(uav1, uav2), on two UAVs of one fleet
InitResolve ==
    /\ \E speed \in 1..MaxUavSpeed : NoCall(speed)
    /\ \E uav_details \in UavLists(MaxUavs) :
        \E i \in 1..Len(uav_details), j \in 1..Len(uav_details) :
            /\ i < j
            /\ args = [op |-> "resolve_collision",
                       uav1 |-> uav_details[i], uav2 |-> uav_details[j]]

CallResolve ==
    /\ pc = "call"
    /\ args.op = "resolve_collision"
    /\ \E c \in Choices :
        Returned(Return(resolve_collision(args.uav1, args.uav2, c, max_uav_speed)))

SpecResolve == InitResolve /\ [][CallResolve]_vars

\* execute(adjustments) on a drawn plan
Commands ==
    [id : {100 + i : i \in 1..SnapshotMaxUavs}, action : {"move"},
     target : {<<c, c>> : c \in Coords}, speed : {<<DefaultMaxUavSpeed, 1>>}]

InitExecute ==
    /\ Construct(DefaultMaxUavSpeed, DefaultCollisionDistance)
    /\ pc = "execute"
    /\ data = NoData
    /\ analysis = NoAnalysis
    /\ adjustments \in SeqsUpTo(Commands, MaxPlan)
    /\ sent = <<>>
    /\ error = "none"
    /\ fast_cycles = 0
    /\ args = NoArgs
    /\ ret = Return(<<>>)

NextExecute ==
    \/ ExecuteDispatch
    \/ ExecuteReturn

SpecExecute == InitExecute /\ [][NextExecute]_vars

SpecPrioritize == InitPrioritize /\ [][CallPrioritize]_vars

SpecAllocate == InitAllocate /\ [][CallAllocate]_vars

----------------------------------------------------------------------------
(* Properties *)

AnalyzeCompleted == pc = "analyze" /\ pc' = "plan"
AnalyzeRaised == pc = "analyze" /\ pc' = "failed"

\* C1: the radius stays within [5, 15]; one call of adjust_observation_radius
\* (made by a completed analyze) moves it by exactly one, down when the fire is
\* fast and up otherwise, and leaves it alone only at the floor (fast fire) or
\* at the ceiling (slow fire).
C1_RadiusBoundedUnitSteps ==
    [][/\ observation_radius' \in MinRadius..MaxRadius
       /\ AnalyzeCompleted =>
            IF data.fire_spread_speed > SpeedThreshold
            THEN \/ observation_radius = MinRadius /\ observation_radius' = MinRadius
                 \/ observation_radius > MinRadius
                    /\ observation_radius' = observation_radius - 1
            ELSE \/ observation_radius = MaxRadius /\ observation_radius' = MaxRadius
                 \/ observation_radius < MaxRadius
                    /\ observation_radius' = observation_radius + 1]_vars

\* the adjustment just made was clamped at the floor: one more fast-fire
\* analysis than there are steps from 8 down to 5
C1_ClampedAtFloor ==
    /\ pc = "plan"
    /\ data.fire_spread_speed > SpeedThreshold
    /\ fast_cycles > InitialRadius - MinRadius
    /\ observation_radius = MinRadius

----------------------------------------------------------------------------
Perms(n) == {f \in [1..n -> 1..n] : \A i, j \in 1..n : i # j => f[i] # f[j]}

\* the score of a zone: its intensity over (distance to a nearest UAV + 1)
IsScoreOf(priority, zone, uavs) ==
    /\ priority.num = zone.intensity
    /\ \E j \in 1..Len(uavs) : priority.d2 = norm2(zone, uavs[j])
    /\ \A j \in 1..Len(uavs) : priority.d2 <= norm2(zone, uavs[j])

ScoreEqual(p, q) == ~ScoreLess(p, q) /\ ~ScoreLess(q, p)

\* C2: with a non-empty UAV list prioritize_fire_zones returns one entry per
\* input zone, each with its score, in non-increasing order of score, and
\* zones of equal score in their input order.
C2_PrioritizedStableDescending ==
    (Called("prioritize_fire_zones") /\ Len(args.uav_positions) > 0) =>
        LET zones == args.fire_zones
            out == ret.val
        IN  /\ ret.err = "none"
            /\ Len(out) = Len(zones)
            /\ \E f \in Perms(Len(zones)) :
                /\ \A k \in 1..Len(out) :
                    /\ out[k].zone = zones[f[k]]
                    /\ IsScoreOf(out[k].priority, zones[f[k]], args.uav_positions)
                /\ \A k, l \in 1..Len(out) :
                    k < l =>
                        /\ ~ScoreLess(out[k].priority, out[l].priority)
                        /\ ScoreEqual(out[k].priority, out[l].priority) => f[k] < f[l]

\* three zones were reordered: the last input zone came first, and two
\* different zones of equal non-zero score kept their input order behind it
C2_ReorderedWithTie ==
    /\ Called("prioritize_fire_zones")
    /\ Len(ret.val) = 3
    /\ ret.val[1].zone = args.fire_zones[3]
    /\ ret.val[2].zone = args.fire_zones[1]
    /\ ret.val[3].zone = args.fire_zones[2]
    /\ args.fire_zones[1] # args.fire_zones[2]
    /\ ret.val[2].priority.num > 0
    /\ ScoreLess(ret.val[2].priority, ret.val[1].priority)
    /\ ScoreEqual(ret.val[2].priority, ret.val[3].priority)

----------------------------------------------------------------------------
\* C3: detect_collisions reports two UAVs exactly when they are at different
\* positions of the list and strictly closer than security_distance; it
\* reports each unordered pair at most once and never a UAV with itself.
C3_CollisionsStrictOncePerPair ==
    Called("detect_collisions") =>
        LET u == args.uav_details
            d == args.security_distance
            out == ret.val
        IN  /\ \A i, j \in 1..Len(u) :
                i # j =>
                    ((norm2(u[i], u[j]) < d * d)
                        <=> \E k \in 1..Len(out) :
                                out[k] = <<u[i], u[j]>> \/ out[k] = <<u[j], u[i]>>)
            /\ \A k \in 1..Len(out) :
                /\ \E i, j \in 1..Len(u) : i # j /\ out[k] = <<u[i], u[j]>>
                /\ out[k][1] # out[k][2]
                /\ out[k][1].id # out[k][2].id
                /\ \A l \in 1..Len(out) :
                    l # k => out[l] # out[k] /\ out[l] # <<out[k][2], out[k][1]>>

\* one pair is reported while another pair, exactly security_distance apart,
\* is not
C3_PairAtThresholdLeftOut ==
    /\ Called("detect_collisions")
    /\ Len(ret.val) = 1
    /\ args.security_distance > 0
    /\ \E i, j \in 1..Len(args.uav_details) :
        /\ i < j
        /\ norm2(args.uav_details[i], args.uav_details[j])
             = args.security_distance * args.security_distance

----------------------------------------------------------------------------
\* C4: with a non-empty UAV list allocate_uavs returns one "move" adjustment
\* per zone, in the order of the prioritized sequence, to the zone's [x, y] at
\* max_uav_speed, for the first UAV of the whole list among those nearest to
\* the zone; the same UAV may serve several zones.
C4_AllocatesFirstNearest ==
    (Called("allocate_uavs") /\ Len(args.uav_positions) > 0) =>
        LET zones == args.prioritized_zones
            u == args.uav_positions
            out == ret.val
        IN  /\ ret.err = "none"
            /\ Len(out) = Len(zones)
            /\ \A i \in 1..Len(out) :
                /\ out[i].action = "move"
                /\ out[i].target = <<zones[i].zone.x, zones[i].zone.y>>
                /\ out[i].speed[1] = max_uav_speed * out[i].speed[2]
                /\ \E j \in 1..Len(u) :
                    /\ out[i].id = u[j].id
                    /\ \A k \in 1..Len(u) :
                        /\ norm2(zones[i].zone, u[j]) <= norm2(zones[i].zone, u[k])
                        /\ k < j => norm2(zones[i].zone, u[j]) < norm2(zones[i].zone, u[k])

\* one UAV got two different zones while other UAVs stood by, one of them
\* just as near to the first zone
C4_OneUavTwoZones ==
    /\ Called("allocate_uavs")
    /\ Len(ret.val) >= 2
    /\ Len(args.uav_positions) >= 2
    /\ ret.val[1].id = ret.val[2].id
    /\ ret.val[1].target # ret.val[2].target
    /\ \E j, k \in 1..Len(args.uav_positions) :
        /\ j < k
        /\ args.uav_positions[j].id = ret.val[1].id
        /\ norm2(args.prioritized_zones[1].zone, args.uav_positions[j])
             = norm2(args.prioritized_zones[1].zone, args.uav_positions[k])

----------------------------------------------------------------------------
\* C5: predict_fire_spread shifts every zone one unit along the wind
\* (north y-1, south y+1, east x+1, west x-1), one position per zone in input
\* order, and shifts nothing when the wind is inactive or its direction "none".
C5_ShiftOnlyWithActiveWind ==
    Called("predict_fire_spread") =>
        LET zones == args.fire_zones
            wind == args.wind
            out == ret.val
        IN  IF wind.active /\ wind.direction # "none"
            THEN /\ Len(out) = Len(zones)
                 /\ \A i \in 1..Len(out) :
                     /\ wind.direction = "north"
                          => out[i] = [x |-> zones[i].x, y |-> zones[i].y - 1]
                     /\ wind.direction = "south"
                          => out[i] = [x |-> zones[i].x, y |-> zones[i].y + 1]
                     /\ wind.direction = "east"
                          => out[i] = [x |-> zones[i].x + 1, y |-> zones[i].y]
                     /\ wind.direction = "west"
                          => out[i] = [x |-> zones[i].x - 1, y |-> zones[i].y]
            ELSE \/ Len(out) = 0
                 \/ /\ Len(out) = Len(zones)
                    /\ \A i \in 1..Len(out) : out[i] = [x |-> zones[i].x, y |-> zones[i].y]

----------------------------------------------------------------------------
EmptyFleetCall ==
    /\ pc = "returned"
    /\ args.op \in {"prioritize_fire_zones", "allocate_uavs"}
    /\ Len(args.uav_positions) = 0

ZonesOfCall ==
    IF args.op = "prioritize_fire_zones" THEN args.fire_zones ELSE args.prioritized_zones

\* C6: with an empty UAV list prioritize_fire_zones and allocate_uavs fail
\* with an error, whatever the zones, an empty zone list included.
C6_EmptyFleetAlwaysFails ==
    EmptyFleetCall => ret.err # "none"

\* C6, amended: with an empty UAV list each of the two fails with an error
\* when there is at least one zone, and returns an empty list when there is
\* no zone.
C6_EmptyFleetFailsOnZones ==
    EmptyFleetCall =>
        IF Len(ZonesOfCall) > 0
        THEN ret.err = "ValueError"
        ELSE ret = Return(<<>>)

\* prioritize_fire_zones failed on zones without a fleet
C6_PrioritizeFailed ==
    /\ EmptyFleetCall
    /\ args.op = "prioritize_fire_zones"
    /\ Len(args.fire_zones) > 0
    /\ ret.err = "ValueError"

----------------------------------------------------------------------------
ExecuteRaised == pc = "failed" /\ error = "ExecutionApiError"

DispatchedInOrder ==
    /\ Len(sent) <= Len(adjustments)
    /\ \A i \in 1..Len(sent) :
        /\ sent[i].adj = adjustments[i]
        /\ i < Len(sent) => sent[i].status = HttpOk
    /\ ExecuteRaised <=> (Len(sent) > 0 /\ sent[Len(sent)].status # HttpOk)
    /\ pc = "done" =>
        /\ Len(sent) = Len(adjustments)
        /\ \A i \in 1..Len(sent) : sent[i].status = HttpOk

\* C7: execute dispatches the adjustments one at a time in plan order; the
\* first non-success answer makes it raise, with that adjustment and those
\* before it dispatched and none after it; when every answer is a success,
\* every adjustment is dispatched exactly once.
C7_DispatchStopsAtFirstFailure ==
    [][/\ DispatchedInOrder'
       /\ pc # "execute" => sent' = sent
       /\ sent' # sent =>
            /\ Len(sent') = Len(sent) + 1
            /\ SubSeq(sent', 1, Len(sent)) = sent]_vars

\* the second of three different adjustments was refused: execute raised
\* with two dispatched and the third left
C7_RaisedMidPlan ==
    /\ ExecuteRaised
    /\ Len(adjustments) = 3
    /\ Len(sent) = 2
    /\ adjustments[1] # adjustments[2]
    /\ adjustments[2] # adjustments[3]
    /\ adjustments[1] # adjustments[3]

----------------------------------------------------------------------------
\* C8: resolve_collision returns two "move" adjustments, for uav1 then uav2,
\* each at half of max_uav_speed and each to a target one unit away from the
\* UAV's position on both axes, whatever the random draws.
C8_TwoEvasionsAtHalfSpeed ==
    Called("resolve_collision") =>
        LET out == ret.val
            uav == <<args.uav1, args.uav2>>
        IN  /\ ret.err = "none"
            /\ Len(out) = 2
            /\ \A i \in 1..2 :
                /\ out[i].id = uav[i].id
                /\ out[i].action = "move"
                /\ 2 * out[i].speed[1] = max_uav_speed * out[i].speed[2]
                /\ out[i].target[1] - uav[i].x \in {-1, 1}
                /\ out[i].target[2] - uav[i].y \in {-1, 1}

\* two UAVs at different places were sent opposite ways, at a speed (1/2)
\* that is no whole number
C8_OppositeDraws ==
    /\ Called("resolve_collision")
    /\ max_uav_speed = 1
    /\ <<args.uav1.x, args.uav1.y>> # <<args.uav2.x, args.uav2.y>>
    /\ ret.val[1].target = <<args.uav1.x - 1, args.uav1.y + 1>>
    /\ ret.val[2].target = <<args.uav2.x + 1, args.uav2.y - 1>>

----------------------------------------------------------------------------
PlanRaised == pc = "failed" /\ error = "TypeError"
PlanReturned == pc \in {"execute", "done"} \/ ExecuteRaised

\* C9: for a snapshot with at least one UAV, plan on what analyze returned
\* completes, with one allocation adjustment per fire zone (from the
\* snapshot's UAVs) followed by two resolution adjustments per collision pair,
\* every id being the id of a UAV of the snapshot.
C9_PlanCompletesOnAnalysis ==
    Len(data.uav_details) >= 1 =>
        /\ ~PlanRaised
        /\ PlanReturned =>
            LET allocated == allocate_uavs(analysis.prioritized_zones,
                                           Some(data.uav_details), max_uav_speed).val
            IN  /\ Len(adjustments) = Len(data.fire_zones)
                                       + 2 * Len(analysis.collision_warnings)
                /\ SubSeq(adjustments, 1, Len(data.fire_zones)) = allocated
                /\ \A i \in 1..Len(adjustments) :
                    \E j \in 1..Len(data.uav_details) :
                        adjustments[i].id = data.uav_details[j].id

----------------------------------------------------------------------------
RadiusRule(radius, fire_spread_speed) ==
    IF fire_spread_speed > SpeedThreshold
    THEN Max(radius - 1, MinRadius)
    ELSE Min(radius + 1, MaxRadius)

\* C10: every call of analyze, whatever the snapshot, applies the radius
\* transition once (down to max(radius - 1, 5) when fire_spread_speed > 3, up
\* to min(radius + 1, 15) otherwise); plan and execute never change the
\* radius; under fast fire from 8 the radius is 7 after one cycle, reaches 5
\* and stays 5.
C10_EveryAnalyzeAdjusts ==
    [][/\ pc = "analyze" =>
            observation_radius' = RadiusRule(observation_radius, data.fire_spread_speed)
       /\ pc # "analyze" => observation_radius' = observation_radius
       /\ fast_cycles' >= 0 =>
            observation_radius' = Max(InitialRadius - fast_cycles', MinRadius)]_vars

\* C10, amended: every call of analyze that returns applies the radius
\* transition once; a call that raises (fire zones but no UAV) leaves the
\* radius as it was; plan and execute never change the radius; under fast fire
\* from 8 the radius is 7 after one completed analysis, reaches 5 and stays 5.
C10_CompletedAnalyzeAdjusts ==
    [][/\ AnalyzeCompleted =>
            observation_radius' = RadiusRule(observation_radius, data.fire_spread_speed)
       /\ AnalyzeRaised =>
            /\ observation_radius' = observation_radius
            /\ Len(data.uav_details) = 0
            /\ Len(data.fire_zones) > 0
       /\ pc = "analyze" => AnalyzeCompleted \/ AnalyzeRaised
       /\ pc # "analyze" => observation_radius' = observation_radius
       /\ fast_cycles' >= 0 =>
            observation_radius' = Max(InitialRadius - fast_cycles', MinRadius)]_vars

\* analyze raised on a fast-fire snapshot after the radius had come down from
\* 8 to 5 and stayed there for one more fast-fire cycle
C10_RaisedAtFloor ==
    /\ pc = "failed"
    /\ error = "ValueError"
    /\ data.fire_spread_speed > SpeedThreshold
    /\ fast_cycles > InitialRadius - MinRadius
    /\ observation_radius = MinRadius

====
